---------------------------- MODULE Spec2Model ----------------------------
(***************************************************************************)
(* State-machine model of the two download scripts                         *)
(*   src/mt5_1minuto_por_chunks.py  (bar pipeline:  main)                  *)
(*   src/download_tick_mt5.py       (tick pipeline: download_ticks_by_date)*)
(*                                                                         *)
(* Time is an integer count of model units.  In the bar pipeline one unit  *)
(* is half a minute (Minute = 2), so that int(total_seconds / 60) really   *)
(* truncates; in the tick pipeline one unit is half a day (Day = 2), so    *)
(* that the clipping of batch_start to start_date really happens.  A       *)
(* record (tick or bar) is represented by its timestamp.                   *)
(***************************************************************************)
EXTENDS Integers, Sequences, FiniteSets, TLC

(* ------------------------------ bounds -------------------------------- *)
\* latest date of a pipeline run (Spec)
MaxT == 5
\* latest date handed to calculate_chunks when it is checked alone (SpecChunks)
MaxTChunks == 9
\* largest max_bars
MaxBars == 3
\* most records the data source holds
MaxRecords == 2
\* SpecFinal: most chunk results in an accumulator (and most records in one
\* result), and the latest timestamp of a record
MaxResults == 2
MaxStamp == 1

(* ------------------------- program constants -------------------------- *)
\* units per minute: the 60 of int(total_seconds() / 60), timedelta(minutes=1)
Minute == 2
\* units per day: timedelta(days=1)
Day == 2

VARIABLES
  pipeline,        \* "bar" | "tick": which script runs
  start_date, end_date, max_bars,
  store, closed,   \* the data source: timestamps held; closed or half-open ranges
  pc,              \* position in the running script
  connected,       \* the MT5 session is up
  initOK,          \* mt5.initialize() returned True
  selected,        \* mt5.symbol_select() returned True
  shutdowns,       \* number of mt5.shutdown() calls
  chunks, current_start,      \* calculate_chunks
  idx,             \* chunks consumed by the loop of download_historical_data
  current_end,     \* download_in_batches
  all_data,        \* accumulator: all_data / all_ticks_list
  all_ticks,       \* TickDownloader.all_ticks
  combined,        \* download_historical_data's return value / df of save_ticks_to_csv
  downloaded,      \* return value of download_by_date_range
  csvWrites,       \* number of to_csv calls
  written,         \* contents of the CSV file
  saved,           \* return value of save_ticks_to_csv / save_to_csv
  result,          \* return value of the entry point
  requests,        \* history: every copy_*_range call, in order
  raisedAt         \* history: the calls that raised an exception

vars == <<pipeline, start_date, end_date, max_bars, store, closed, pc, connected,
          initOK, shutdowns, chunks, current_start, idx, current_end, all_data,
          all_ticks, combined, downloaded, csvWrites, written, saved, result, requests,
          selected, raisedAt>>

inputVars == <<pipeline, start_date, end_date, max_bars, store, closed>>
sessionVars == <<connected, initOK, selected, shutdowns>>
calcVars == <<chunks, current_start>>
fetchVars == <<idx, current_end, all_data, requests>>
outVars == <<all_ticks, combined, downloaded, csvWrites, written, saved, result>>

(* --------------------------- Python's None ---------------------------- *)
None == [isNone |-> TRUE, v |-> <<>>]
Some(x) == [isNone |-> FALSE, v |-> x]

(* ------------------------------ helpers ------------------------------- *)
Min(a, b) == IF a <= b THEN a ELSE b

\* int(x / y) of Python for y > 0: truncation towards zero
TruncDiv(x, y) == IF x >= 0 THEN x \div y ELSE -((-x) \div y)

\* int((end_date - start_date).total_seconds() / 60)
TotalMinutes(s, e) == TruncDiv(e - s, Minute)

\* int(max_bars * 0.9); the float product truncates to (9 * max_bars) div 10
\* for every max_bars up to 2,000,000
ChunkMinutes(m) == (9 * m) \div 10

\* faulty variant of Max: the first operand is not clipped to the second
NoClip(a, b) == a
\* max(a, b); download_in_batches: batch_start is not allowed below start_date
Max(a, b) == IF a >= b THEN a ELSE b

\* Python's list/array concatenation of the accumulated results, in list order
RECURSIVE Concat(_)
Concat(ss) == IF ss = <<>> THEN <<>> ELSE Head(ss) \o Concat(Tail(ss))

RECURSIVE InsertByTime(_, _)
InsertByTime(x, sorted) ==
  IF sorted = <<>> THEN <<x>>
  ELSE IF x < Head(sorted) THEN <<x>> \o sorted
  ELSE <<Head(sorted)>> \o InsertByTime(x, Tail(sorted))

RECURSIVE SortFrom(_, _)
SortFrom(rest, sorted) ==
  IF rest = <<>> THEN sorted ELSE SortFrom(Tail(rest), InsertByTime(Head(rest), sorted))

\* faulty variant of SortByTime: the frame is left in fetch order
NoSort(df) == df
\* df.sort_values('time'): ascending by timestamp
SortByTime(df) == SortFrom(df, <<>>)

RECURSIVE DropFrom(_, _)
DropFrom(rest, seen) ==
  IF rest = <<>> THEN <<>>
  ELSE IF Head(rest) \in seen THEN DropFrom(Tail(rest), seen)
  ELSE <<Head(rest)>> \o DropFrom(Tail(rest), seen \cup {Head(rest)})

\* faulty variant of DropDuplicates: nothing is dropped
KeepDuplicates(df) == df
\* df.drop_duplicates('time'): the first record of each timestamp is kept
DropDuplicates(df) == DropFrom(df, {})

(* --------------------------- the data source -------------------------- *)
\* the records the source holds in the requested range, under its convention
Held(from, to) ==
  {t \in store : from <= t /\ (IF closed THEN t <= to ELSE t < to)}

RECURSIVE Ascending(_)
Ascending(S) ==
  IF S = {} THEN <<>>
  ELSE LET m == CHOOSE x \in S : \A y \in S : x <= y
       IN  <<m>> \o Ascending(S \ {m})

\* what one copy_ticks_range / copy_rates_range call does: it returns the records
\* ("data", possibly empty), returns None ("none"), or raises ("raise")
Outcomes == {"data", "none", "raise"}
Answer(o, from, to) == IF o = "data" THEN Ascending(Held(from, to)) ELSE <<>>

(* ------------------------- exception handling ------------------------- *)
\* the functions whose body is a try/except Exception
\* faulty variant of TickTryBlocks: save_ticks_to_csv without its try/except
TickTryBlocksNoSave == {"get_ticks_by_date_range", "download_by_date_range"}
TickTryBlocks == {"get_ticks_by_date_range", "download_by_date_range", "save_ticks_to_csv"}
BarTryBlocks == {"download_chunk", "save_to_csv", "main"}

\* the functions a raising call is nested in, innermost first
CallStack(site) ==
  CASE site = "copy_ticks_range" -> <<"get_ticks_by_date_range", "download_by_date_range">>
    [] site = "np.concatenate"   -> <<"download_by_date_range">>
    [] site = "tick_to_csv"      -> <<"save_ticks_to_csv">>
    [] site = "copy_rates_range" -> <<"download_chunk", "main">>
    [] site = "pd.concat"        -> <<"main">>
    [] site = "bar_to_csv"       -> <<"save_to_csv", "main">>

RECURSIVE FirstCatching(_)
FirstCatching(stack) ==
  IF stack = <<>> THEN "uncaught"
  ELSE IF Head(stack) \in TickTryBlocks \cup BarTryBlocks THEN Head(stack)
  ELSE FirstCatching(Tail(stack))

\* the function whose except clause receives an exception raised at site
HandlerOf(site) == FirstCatching(CallStack(site))

\* the history of raised exceptions after a call at site ended with outcome o
Raised(o, site) == IF o = "raise" THEN raisedAt \cup {site} ELSE raisedAt

\* one logged request
Req(from, to, o, ret) ==
  [from |-> from, to |-> to, outcome |-> o, data |-> Answer(o, from, to),
   connected |-> connected, ret |-> ret]

\* faulty variant of FitsOneRequest: < for <=
FitsOneRequestStrict(total, m) == total < m
\* if total_minutes <= max_bars
FitsOneRequest(total, m) == total <= m

(* --------------------------- calculate_chunks ------------------------- *)
CalcEntry ==
  /\ pc = "calc"
  /\ IF FitsOneRequest(TotalMinutes(start_date, end_date), max_bars)
       THEN /\ chunks' = << <<start_date, end_date>> >>
            /\ pc' = "fetch"
       ELSE /\ chunks' = <<>>
            /\ pc' = "calc_loop"
  /\ current_start' = start_date
  /\ UNCHANGED <<inputVars, sessionVars, fetchVars, outVars, raisedAt>>

\* faulty variant of CalcIter: the next chunk starts at chunk_end, without the
\* step of one minute
CalcIterNoStep ==
  /\ pc = "calc_loop"
  /\ current_start < end_date
  /\ LET chunk_end == Min(current_start + ChunkMinutes(max_bars) * Minute, end_date)
     IN  /\ chunks' = Append(chunks, <<current_start, chunk_end>>)
         /\ current_start' = chunk_end
  /\ UNCHANGED <<inputVars, pc, sessionVars, fetchVars, outVars, raisedAt>>

\* one iteration of: while current_start < end_date
CalcIter ==
  /\ pc = "calc_loop"
  /\ current_start < end_date
  /\ LET chunk_end == Min(current_start + ChunkMinutes(max_bars) * Minute, end_date)
     IN  /\ chunks' = Append(chunks, <<current_start, chunk_end>>)
         /\ current_start' = chunk_end + Minute
  /\ UNCHANGED <<inputVars, pc, sessionVars, fetchVars, outVars, raisedAt>>

\* the loop condition fails: return chunks
CalcReturn ==
  /\ pc = "calc_loop"
  /\ ~(current_start < end_date)
  /\ pc' = "fetch"
  /\ UNCHANGED <<inputVars, sessionVars, calcVars, fetchVars, outVars, raisedAt>>

\* the state every run starts with, the session apart
Fresh ==
  /\ shutdowns = 0
  /\ chunks = <<>>
  /\ current_start = start_date
  /\ idx = 0
  /\ current_end = end_date
  /\ all_data = <<>>
  /\ all_ticks = None
  /\ combined = None
  /\ downloaded = FALSE
  /\ csvWrites = 0
  /\ written = None
  /\ saved = "unset"
  /\ result = "unset"
  /\ requests = <<>>
  /\ raisedAt = {}

(* calculate_chunks called on its own: every start_date < end_date, max_bars >= 1 *)
InitChunks ==
  /\ pipeline = "bar"
  /\ start_date \in 0..MaxTChunks
  /\ end_date \in 0..MaxTChunks
  /\ start_date < end_date
  /\ max_bars \in 1..MaxBars
  /\ store = {}
  /\ closed = TRUE
  /\ pc = "calc"
  /\ connected = TRUE
  /\ initOK = TRUE
  /\ selected = FALSE
  /\ Fresh

NextChunks == CalcEntry \/ CalcIter \/ CalcReturn

SpecChunks == InitChunks /\ [][NextChunks]_vars

ChunksReturned == pc = "fetch"

(* ------------------- bar pipeline: mt5_1minuto_por_chunks.py ---------- *)
\* main: if not initialize_mt5(): return
BarInitialize ==
  /\ pc = "start"
  /\ pipeline = "bar"
  /\ \E ok \in BOOLEAN :
       IF ok THEN /\ connected' = TRUE
                  /\ initOK' = TRUE
                  /\ pc' = "calc"
                  /\ result' = result
             ELSE /\ UNCHANGED <<connected, initOK>>
                  /\ pc' = "done"
                  /\ result' = "None"
  /\ UNCHANGED <<inputVars, selected, shutdowns, calcVars, fetchVars, all_ticks,
                 combined, downloaded, csvWrites, written, saved, raisedAt>>

\* download_chunk's return value: None for None, for an empty frame and for an
\* exception caught by its except clause
DownloadChunk(o, data) ==
  IF o = "data" /\ Len(data) > 0 THEN Some(data) ELSE None

\* faulty variant of BarFetch: the loop ends at the first chunk without data
BarFetchStopOnEmpty ==
  /\ pc = "fetch"
  /\ idx < Len(chunks)
  /\ \E o \in Outcomes :
       LET from == chunks[idx + 1][1]
           to   == chunks[idx + 1][2]
           ret  == DownloadChunk(o, Answer(o, from, to))
       IN  /\ requests' = Append(requests, Req(from, to, o, ret))
           /\ raisedAt' = Raised(o, "copy_rates_range")
           /\ all_data' = IF ~ret.isNone THEN Append(all_data, ret.v) ELSE all_data
           /\ idx' = IF ret.isNone THEN Len(chunks) ELSE idx + 1
           /\ pc' = "fetch"
  /\ UNCHANGED <<inputVars, sessionVars, calcVars, current_end, outVars>>

\* one iteration of: for i, (chunk_start, chunk_end) in enumerate(chunks)
BarFetch ==
  /\ pc = "fetch"
  /\ idx < Len(chunks)
  /\ \E o \in Outcomes :
       LET from == chunks[idx + 1][1]
           to   == chunks[idx + 1][2]
           ret  == DownloadChunk(o, Answer(o, from, to))
       IN  /\ requests' = Append(requests, Req(from, to, o, ret))
           /\ raisedAt' = Raised(o, "copy_rates_range")
           /\ IF o = "raise" /\ HandlerOf("copy_rates_range") # "download_chunk"
                THEN /\ pc' = IF HandlerOf("copy_rates_range") = "main"
                                THEN "bar_finally" ELSE "crashed"
                     /\ UNCHANGED <<all_data, idx>>
                ELSE /\ all_data' = IF ~ret.isNone /\ Len(ret.v) > 0
                                      THEN Append(all_data, ret.v) ELSE all_data
                     /\ idx' = idx + 1
                     /\ pc' = "fetch"
  /\ UNCHANGED <<inputVars, sessionVars, calcVars, current_end, outVars>>

\* the loop is over: go on to combine
BarLoopExit ==
  /\ pc = "fetch"
  /\ idx = Len(chunks)
  /\ pc' = "combine"
  /\ UNCHANGED <<inputVars, sessionVars, calcVars, fetchVars, outVars, raisedAt>>

\* pd.concat, sort_values('time'), drop_duplicates('time')
Finalize(frames) == DropDuplicates(SortByTime(Concat(frames)))

\* faulty variant of BarCombine: no test of all_data, an empty frame is saved
BarCombineAlways ==
  /\ pc = "combine"
  /\ pipeline = "bar"
  /\ \E o \in {"ok", "raise"} :
       /\ raisedAt' = Raised(o, "pd.concat")
       /\ IF o = "ok"
            THEN /\ combined' = Some(Finalize(all_data))
                 /\ pc' = "save"
            ELSE /\ combined' = combined
                 /\ pc' = "bar_finally"
  /\ UNCHANGED <<inputVars, sessionVars, calcVars, fetchVars, all_ticks, downloaded,
                 csvWrites, written, saved, result>>

\* download_historical_data, after the loop, and main's test of its result
BarCombine ==
  /\ pc = "combine"
  /\ pipeline = "bar"
  /\ IF all_data # <<>>
       THEN \E o \in {"ok", "raise"} :
              /\ raisedAt' = Raised(o, "pd.concat")
              /\ IF o = "ok"
                THEN /\ combined' = Some(Finalize(all_data))
                     /\ pc' = "save"
                ELSE /\ combined' = combined
                     /\ pc' = IF HandlerOf("pd.concat") = "main"
                                THEN "bar_finally" ELSE "crashed"
       ELSE /\ combined' = None
            /\ raisedAt' = raisedAt
            /\ pc' = "bar_finally"
  /\ UNCHANGED <<inputVars, sessionVars, calcVars, fetchVars, all_ticks, downloaded,
                 csvWrites, written, saved, result>>

\* save_to_csv(data, output_filename)
BarSave ==
  /\ pc = "save"
  /\ csvWrites' = csvWrites + 1
  /\ \E o \in {"ok", "raise"} :
       /\ raisedAt' = Raised(o, "bar_to_csv")
       /\ IF o = "ok"
         THEN /\ written' = combined
              /\ saved' = "True"
              /\ pc' = "bar_finally"
         ELSE /\ written' = written
              /\ saved' = IF HandlerOf("bar_to_csv") = "save_to_csv" THEN "False" ELSE saved
              /\ pc' = IF HandlerOf("bar_to_csv") \in {"save_to_csv", "main"}
                         THEN "bar_finally" ELSE "crashed"
  /\ UNCHANGED <<inputVars, sessionVars, calcVars, fetchVars, all_ticks, combined,
                 downloaded, result>>

\* finally: mt5.shutdown(); main returns None
BarFinally ==
  /\ pc = "bar_finally"
  /\ connected' = FALSE
  /\ shutdowns' = shutdowns + 1
  /\ pc' = "done"
  /\ result' = "None"
  /\ UNCHANGED <<inputVars, initOK, selected, calcVars, fetchVars, all_ticks, combined,
                 downloaded, csvWrites, written, saved, raisedAt>>

(* ---------------------- tick pipeline: download_tick_mt5.py ----------- *)
\* initialize_mt5: if not mt5.initialize(): return False
TickInitialize ==
  /\ pc = "start"
  /\ pipeline = "tick"
  /\ \E ok \in BOOLEAN :
       IF ok THEN /\ connected' = TRUE
                  /\ initOK' = TRUE
                  /\ pc' = "select"
                  /\ result' = result
             ELSE /\ UNCHANGED <<connected, initOK>>
                  /\ pc' = "done"
                  /\ result' = "None"
  /\ UNCHANGED <<inputVars, selected, shutdowns, calcVars, fetchVars, all_ticks,
                 combined, downloaded, csvWrites, written, saved, raisedAt>>

\* faulty variant of TickSymbolSelect: no mt5.shutdown() when selection fails
TickSymbolSelectNoShutdown ==
  /\ pc = "select"
  /\ \E ok \in BOOLEAN :
       IF ok THEN /\ selected' = TRUE
                  /\ pc' = "full"
                  /\ result' = result
             ELSE /\ selected' = FALSE
                  /\ pc' = "done"
                  /\ result' = "None"
  /\ UNCHANGED <<inputVars, connected, initOK, shutdowns, calcVars, fetchVars, all_ticks, combined,
                 downloaded, csvWrites, written, saved, raisedAt>>

\* faulty variant of TickSymbolSelect: the download goes on when selection fails
TickSymbolSelectGoesOn ==
  /\ pc = "select"
  /\ \E ok \in BOOLEAN :
       IF ok THEN /\ selected' = TRUE
                  /\ UNCHANGED <<connected, shutdowns>>
             ELSE /\ selected' = FALSE
                  /\ connected' = FALSE
                  /\ shutdowns' = shutdowns + 1
  /\ pc' = "full"
  /\ UNCHANGED <<inputVars, initOK, calcVars, fetchVars, outVars, raisedAt>>

\* initialize_mt5: if not mt5.symbol_select(...): mt5.shutdown(); return False
TickSymbolSelect ==
  /\ pc = "select"
  /\ \E ok \in BOOLEAN :
       IF ok THEN /\ selected' = TRUE
                  /\ UNCHANGED <<connected, shutdowns>>
                  /\ pc' = "full"
                  /\ result' = result
             ELSE /\ selected' = FALSE
                  /\ connected' = FALSE
                  /\ shutdowns' = shutdowns + 1
                  /\ pc' = "done"
                  /\ result' = "None"
  /\ UNCHANGED <<inputVars, initOK, calcVars, fetchVars, all_ticks, combined,
                 downloaded, csvWrites, written, saved, raisedAt>>

\* get_ticks_by_date_range's return value: None for None and for an exception
\* caught by its except clause, the array (empty or not) otherwise
GetTicks(o, data) == IF o = "data" THEN Some(data) ELSE None

\* where an exception that get_ticks_by_date_range does not catch ends up
TickUnwind(site) ==
  IF HandlerOf(site) = "download_by_date_range" THEN "tick_finally" ELSE "crashed"

\* faulty variant of TickFull: no return after a successful full-range download
TickFullAlwaysBatches ==
  /\ pc = "full"
  /\ \E o \in Outcomes :
       LET ret == GetTicks(o, Answer(o, start_date, end_date))
       IN  /\ requests' = Append(requests, Req(start_date, end_date, o, ret))
           /\ raisedAt' = Raised(o, "copy_ticks_range")
           /\ IF ~ret.isNone /\ Len(ret.v) > 0
                THEN /\ all_ticks' = ret
                     /\ downloaded' = TRUE
                ELSE UNCHANGED <<all_ticks, downloaded>>
           /\ current_end' = end_date
           /\ all_data' = <<>>
           /\ pc' = "batch"
  /\ UNCHANGED <<inputVars, sessionVars, calcVars, idx, combined, csvWrites, written,
                 saved, result>>

\* download_by_date_range: the attempt on the whole range
TickFull ==
  /\ pc = "full"
  /\ \E o \in Outcomes :
       LET ret == GetTicks(o, Answer(o, start_date, end_date))
       IN  /\ requests' = Append(requests, Req(start_date, end_date, o, ret))
           /\ raisedAt' = Raised(o, "copy_ticks_range")
           /\ IF o = "raise" /\ HandlerOf("copy_ticks_range") # "get_ticks_by_date_range"
                THEN /\ pc' = TickUnwind("copy_ticks_range")
                     /\ UNCHANGED <<all_ticks, downloaded, current_end, all_data>>
                ELSE IF ~ret.isNone /\ Len(ret.v) > 0
                  THEN /\ all_ticks' = ret
                       /\ downloaded' = TRUE
                       /\ pc' = "tick_finally"
                       /\ UNCHANGED <<current_end, all_data>>
                  ELSE /\ current_end' = end_date
                       /\ all_data' = <<>>
                       /\ pc' = "batch"
                       /\ UNCHANGED <<all_ticks, downloaded>>
  /\ UNCHANGED <<inputVars, sessionVars, calcVars, idx, combined, csvWrites, written,
                 saved, result>>

\* faulty variant of TickBatch: the loop ends at the first batch without data
TickBatchStopOnEmpty ==
  /\ pc = "batch"
  /\ current_end > start_date
  /\ \E o \in Outcomes :
       LET batch_start == Max(current_end - Day, start_date)
           ret == GetTicks(o, Answer(o, batch_start, current_end))
           got == ~ret.isNone /\ Len(ret.v) > 0
       IN  /\ requests' = Append(requests, Req(batch_start, current_end, o, ret))
           /\ raisedAt' = Raised(o, "copy_ticks_range")
           /\ all_data' = IF got THEN Append(all_data, ret.v) ELSE all_data
           /\ current_end' = batch_start
           /\ pc' = IF batch_start <= start_date \/ ~got THEN "combine" ELSE "batch"
  /\ UNCHANGED <<inputVars, sessionVars, calcVars, idx, outVars>>

\* download_in_batches: one iteration of: while current_end > self.start_date
TickBatch ==
  /\ pc = "batch"
  /\ current_end > start_date
  /\ \E o \in Outcomes :
       LET batch_start == Max(current_end - Day, start_date)
           ret == GetTicks(o, Answer(o, batch_start, current_end))
       IN  /\ requests' = Append(requests, Req(batch_start, current_end, o, ret))
           /\ raisedAt' = Raised(o, "copy_ticks_range")
           /\ IF o = "raise" /\ HandlerOf("copy_ticks_range") # "get_ticks_by_date_range"
                THEN /\ pc' = TickUnwind("copy_ticks_range")
                     /\ UNCHANGED <<all_data, current_end>>
                ELSE /\ all_data' = IF ~ret.isNone /\ Len(ret.v) > 0
                                      THEN Append(all_data, ret.v) ELSE all_data
                     /\ current_end' = batch_start
                     \* if current_end <= self.start_date: break
                     /\ pc' = IF batch_start <= start_date THEN "combine" ELSE "batch"
  /\ UNCHANGED <<inputVars, sessionVars, calcVars, idx, outVars>>

\* the while condition fails on entry (end_date <= start_date)
TickBatchExit ==
  /\ pc = "batch"
  /\ ~(current_end > start_date)
  /\ pc' = "combine"
  /\ UNCHANGED <<inputVars, sessionVars, calcVars, fetchVars, outVars, raisedAt>>

\* download_in_batches, after the loop: np.concatenate(all_ticks_list)
TickCombine ==
  /\ pc = "combine"
  /\ pipeline = "tick"
  /\ IF all_data # <<>>
       THEN \E o \in {"ok", "raise"} :
              /\ raisedAt' = Raised(o, "np.concatenate")
              /\ IF o = "ok"
                THEN /\ all_ticks' = Some(Concat(all_data))
                     /\ downloaded' = TRUE
                     /\ pc' = "tick_finally"
                ELSE /\ UNCHANGED <<all_ticks, downloaded>>
                     /\ pc' = TickUnwind("np.concatenate")
       ELSE /\ UNCHANGED <<all_ticks, downloaded, raisedAt>>
            /\ pc' = "tick_finally"
  /\ UNCHANGED <<inputVars, sessionVars, calcVars, fetchVars, combined, csvWrites,
                 written, saved, result>>

\* download_by_date_range: finally: mt5.shutdown(); then download_ticks_by_date
\* tests the return value
TickFinally ==
  /\ pc = "tick_finally"
  /\ connected' = FALSE
  /\ shutdowns' = shutdowns + 1
  /\ IF downloaded THEN /\ pc' = "tick_save"
                        /\ result' = result
                   ELSE /\ pc' = "done"
                        /\ result' = "None"
  /\ UNCHANGED <<inputVars, initOK, selected, calcVars, fetchVars, all_ticks, combined,
                 downloaded, csvWrites, written, saved, raisedAt>>

\* save_ticks_to_csv, and download_ticks_by_date's return
TickSave ==
  /\ pc = "tick_save"
  /\ IF all_ticks.isNone \/ Len(all_ticks.v) = 0
       THEN /\ saved' = "None"
            /\ result' = "None"
            /\ pc' = "done"
            /\ UNCHANGED <<combined, csvWrites, written, raisedAt>>
       ELSE /\ combined' = Some(SortByTime(all_ticks.v))
            /\ csvWrites' = csvWrites + 1
            /\ \E o \in {"ok", "raise", "missing"} :
                 /\ raisedAt' = Raised(o, "tick_to_csv")
                 /\ IF o = "ok"
                   THEN /\ written' = combined'
                        /\ saved' = "filename"
                        /\ result' = "filename"
                        /\ pc' = "done"
                   ELSE /\ written' = written
                        /\ IF o = "raise" /\ HandlerOf("tick_to_csv") # "save_ticks_to_csv"
                             THEN /\ pc' = "crashed"
                                  /\ UNCHANGED <<saved, result>>
                             ELSE /\ saved' = "None"
                                  /\ result' = "None"
                                  /\ pc' = "done"
  /\ UNCHANGED <<inputVars, sessionVars, calcVars, fetchVars, all_ticks, downloaded>>

(* ------------------------------ the runs ------------------------------ *)
Times == 0..MaxT

Init ==
  /\ pipeline \in {"bar", "tick"}
  /\ start_date \in Times
  /\ end_date \in Times
  /\ max_bars \in (IF pipeline = "bar" THEN 1..MaxBars ELSE {1})
  /\ store \in {S \in SUBSET Times : Cardinality(S) <= MaxRecords}
  /\ closed \in BOOLEAN
  /\ pc = "start"
  /\ connected = FALSE
  /\ initOK = FALSE
  /\ selected = FALSE
  /\ Fresh

Next ==
  \/ BarInitialize \/ CalcEntry \/ CalcIter \/ CalcReturn \/ BarFetch \/ BarLoopExit
  \/ BarCombine \/ BarSave \/ BarFinally
  \/ TickInitialize \/ TickSymbolSelect \/ TickFull \/ TickBatch \/ TickBatchExit
  \/ TickCombine \/ TickFinally \/ TickSave

Spec == Init /\ [][Next]_vars

(* finalization on its own: the accumulator holds any non-empty results, in    *)
(* any order, with any timestamps (the scripts never look at what a request    *)
(* returned before they combine it)                                             *)
SeqsUpTo(S, n) == UNION {[1..k -> S] : k \in 1..n}

InitFinal ==
  /\ pipeline \in {"bar", "tick"}
  /\ start_date = 0
  /\ end_date = MaxStamp
  /\ max_bars = 1
  /\ store = 0..MaxStamp
  /\ closed = TRUE
  /\ pc = "combine"
  /\ connected = TRUE
  /\ initOK = TRUE
  /\ selected = (pipeline = "tick")
  /\ shutdowns = 0
  /\ chunks = <<>>
  /\ current_start = start_date
  /\ idx = 0
  /\ current_end = start_date
  /\ all_data \in SeqsUpTo(SeqsUpTo(0..MaxStamp, MaxResults), MaxResults)
  /\ all_ticks = None
  /\ combined = None
  /\ downloaded = FALSE
  /\ csvWrites = 0
  /\ written = None
  /\ saved = "unset"
  /\ result = "unset"
  /\ requests = <<>>
  /\ raisedAt = {}

NextFinal ==
  \/ BarCombine \/ BarSave \/ BarFinally
  \/ TickCombine \/ TickFinally \/ TickSave

SpecFinal == InitFinal /\ [][NextFinal]_vars

(* ============================== claims =============================== *)
Last(q) == q[Len(q)]

\* C1 (as claimed; the code does not satisfy it): the list returned by
\* calculate_chunks for start_date < end_date is contiguous with no gaps: the
\* first chunk starts at start_date, each chunk starts where the previous one
\* ended, and every instant of [start_date, end_date] lies in some chunk.
C1_ChunksContiguous ==
  ChunksReturned /\ start_date < end_date =>
    /\ Len(chunks) >= 1
    /\ chunks[1][1] = start_date
    /\ \A i \in 1..(Len(chunks) - 1) : chunks[i + 1][1] = chunks[i][2]
    /\ \A t \in start_date..end_date :
         \E i \in 1..Len(chunks) : chunks[i][1] <= t /\ t <= chunks[i][2]

\* C2: when the range's size in whole minutes is at most max_bars,
\* calculate_chunks returns the single chunk (start_date, end_date); when it
\* exceeds max_bars, it returns more than one chunk.
C2_OneChunkIffFits ==
  ChunksReturned /\ start_date < end_date =>
    IF TotalMinutes(start_date, end_date) <= max_bars
      THEN chunks = << <<start_date, end_date>> >>
      ELSE Len(chunks) > 1

\* a range of exactly max_bars whole minutes plus a fraction, returned unsplit
C2_Witness ==
  /\ ChunksReturned
  /\ TotalMinutes(start_date, end_date) = max_bars
  /\ (end_date - start_date) % Minute # 0
  /\ chunks = << <<start_date, end_date>> >>

\* C9 (as claimed; the code does not satisfy it): every chunk (s, e) returned
\* by calculate_chunks satisfies start_date <= s <= e <= end_date, and the last
\* chunk ends exactly at end_date.
C9_ChunksWithinAndReachEnd ==
  ChunksReturned /\ start_date < end_date =>
    /\ Len(chunks) >= 1
    /\ \A i \in 1..Len(chunks) :
         /\ start_date <= chunks[i][1]
         /\ chunks[i][1] <= chunks[i][2]
         /\ chunks[i][2] <= end_date
    /\ Last(chunks)[2] = end_date

(* ------------------------- the pipelines' runs ------------------------ *)
\* download_by_date_range (tick) or main (bar) has returned
EntryReturned == pc \in {"tick_save", "done"}

\* C3: once mt5.initialize() has succeeded, mt5.shutdown() is called exactly
\* once before the entry point (download_by_date_range, main) returns, on every
\* exit path; it is never called twice, and never without a session.
C3_ShutdownExactlyOnce ==
  /\ shutdowns <= 1
  /\ ~initOK => shutdowns = 0
  /\ initOK /\ EntryReturned => shutdowns = 1
  /\ pc # "crashed"

\* the symbol-selection failure path of the tick pipeline, torn down once
C3_Witness ==
  /\ pipeline = "tick"
  /\ pc = "done"
  /\ initOK
  /\ ~selected
  /\ shutdowns = 1
  /\ ~connected

\* the request returned None or an empty result
EmptyOrNull(r) == r.outcome = "none" \/ (r.outcome = "data" /\ r.data = <<>>)

\* C4: if the data source returns None or an empty result for every request
\* of a run, no CSV write is attempted and the run ends in failure
\* (download_by_date_range returns False and download_ticks_by_date None;
\* download_historical_data returns None).
C4_NoDataNoFile ==
  (\A i \in 1..Len(requests) : EmptyOrNull(requests[i])) =>
    /\ csvWrites = 0
    /\ written = None
    /\ ~downloaded
    /\ combined = None
    /\ pc \notin {"save", "tick_save"}
    /\ pc = "done" => result = "None" /\ saved = "unset"

\* a tick run whose full-range attempt and two batches all came back empty or None
C4_Witness ==
  /\ pipeline = "tick"
  /\ pc = "done"
  /\ Len(requests) >= 3
  /\ \A i \in 1..Len(requests) : EmptyOrNull(requests[i])
  /\ \E i \in 1..Len(requests) : requests[i].outcome = "data"
  /\ result = "None"
  /\ csvWrites = 0

NonDecreasing(q) == \A i \in 1..(Len(q) - 1) : q[i] <= q[i + 1]
NoRepeat(q) == \A i, j \in 1..Len(q) : i # j => q[i] # q[j]

\* C5: the records written by either pipeline are in non-decreasing timestamp
\* order whatever order the chunks were fetched in, and the bar pipeline's
\* output holds no two records with the same timestamp.
C5_WrittenSortedBarUnique ==
  /\ ~written.isNone =>
       /\ NonDecreasing(written.v)
       /\ pipeline = "bar" => NoRepeat(written.v)
  /\ ~combined.isNone =>
       /\ NonDecreasing(combined.v)
       /\ pipeline = "bar" => NoRepeat(combined.v)

\* a bar file written from two chunk results that came newest first and share
\* a timestamp
C5_Witness ==
  /\ pipeline = "bar"
  /\ ~written.isNone
  /\ Len(all_data) >= 2
  /\ \E t \in 0..MaxStamp :
       /\ \E k \in 1..Len(all_data[1]) : all_data[1][k] = t
       /\ \E k \in 1..Len(all_data[2]) : all_data[2][k] = t
  /\ \E k \in 1..Len(all_data[2]) : all_data[2][k] < all_data[1][1]

\* C6: every data request is issued while the session is up (after a
\* successful init and before the teardown); when session init fails, or
\* symbol selection fails in the tick pipeline, the run issues no request,
\* writes no file and ends in failure.
C6_RequestsInsideSession ==
  /\ \A i \in 1..Len(requests) : requests[i].connected
  /\ pc \in {"fetch", "full", "batch"} => connected
  /\ (~initOK \/ (pipeline = "tick" /\ ~selected)) =>
       /\ requests = <<>>
       /\ csvWrites = 0
       /\ written = None
       /\ pc \in {"start", "select", "done"}
       /\ pc = "done" => result = "None"

\* a run aborted by a failed mt5.initialize()
C6_Witness ==
  /\ pc = "done"
  /\ ~initOK
  /\ result = "None"
  /\ requests = <<>>

\* C7: an exception raised by a data-source call or by the CSV write never
\* propagates out of the entry point: the function that catches it returns
\* its failure value (None / False), and the run still reaches the teardown.
C7_ExceptionsContained ==
  /\ pc # "crashed"
  /\ \A i \in 1..Len(requests) : requests[i].outcome = "raise" => requests[i].ret = None
  /\ "tick_to_csv" \in raisedAt => saved = "None" /\ result = "None" /\ written = None
  /\ "bar_to_csv" \in raisedAt => saved = "False" /\ written = None
  /\ raisedAt # {} /\ pc = "done" => shutdowns = 1 /\ ~connected

\* a tick run in which a batch request and then the CSV write raised
C7_Witness ==
  /\ pipeline = "tick"
  /\ pc = "done"
  /\ raisedAt = {"copy_ticks_range", "tick_to_csv"}
  /\ result = "None"
  /\ shutdowns = 1

\* the non-empty results among the logged requests, in request order
RECURSIVE NonEmptyResults(_)
NonEmptyResults(reqs) ==
  IF reqs = <<>> THEN <<>>
  ELSE IF Head(reqs).data # <<>> THEN <<Head(reqs).data>> \o NonEmptyResults(Tail(reqs))
  ELSE NonEmptyResults(Tail(reqs))

Range(r) == <<r.from, r.to>>

\* the fetch loop has been left
LoopOver == pc \in {"combine", "save", "bar_finally", "tick_finally", "tick_save", "done"}

\* the tick pipeline's full-range attempt gave nothing: the batches were entered
FellBack ==
  /\ pipeline = "tick"
  /\ Len(requests) >= 1
  /\ ~(requests[1].outcome = "data" /\ requests[1].data # <<>>)
  /\ pc # "full"

\* the batch requests of the tick pipeline (all but the full-range attempt)
Batches == IF requests = <<>> THEN <<>> ELSE Tail(requests)

\* C8: in the fetch loop of either pipeline every chunk of the plan is
\* requested exactly once, in plan order; a None, empty or failed result is
\* neither retried nor ends the loop; and the accumulator holds exactly the
\* non-empty results, in the order they were fetched.
C8_EveryChunkOnceInOrder ==
  /\ pipeline = "bar" =>
       /\ Len(requests) = idx
       /\ idx <= Len(chunks)
       /\ \A i \in 1..Len(requests) : Range(requests[i]) = chunks[i]
       /\ LoopOver /\ initOK => Len(requests) = Len(chunks)
       /\ all_data = NonEmptyResults(requests)
  /\ pipeline = "tick" =>
       /\ all_data = NonEmptyResults(Batches)
       /\ \A i \in 1..Len(Batches) :
            /\ Batches[i].to = (IF i = 1 THEN end_date ELSE Batches[i - 1].from)
            /\ Batches[i].from = Max(Batches[i].to - Day, start_date)
       /\ \A i, j \in 1..Len(Batches) : i # j => Range(Batches[i]) # Range(Batches[j])
       /\ FellBack /\ LoopOver /\ start_date < end_date =>
            /\ Batches # <<>>
            /\ Last(Batches).from = start_date

\* a bar run whose first chunk gave nothing and whose second chunk gave records
C8_Witness ==
  /\ pipeline = "bar"
  /\ pc = "combine"
  /\ Len(chunks) >= 2
  /\ Len(requests) = Len(chunks)
  /\ requests[1].outcome \in {"none", "raise"}
  /\ requests[2].data # <<>>
  /\ all_data = <<requests[2].data>>

\* how many times timestamp t occurs in q
RECURSIVE Count(_, _)
Count(t, q) ==
  IF q = <<>> THEN 0 ELSE (IF Head(q) = t THEN 1 ELSE 0) + Count(t, Tail(q))

\* the tick pipeline has left download_in_batches, every batch request having
\* returned its data and np.concatenate having succeeded
BatchesAnswered ==
  /\ FellBack
  /\ start_date < end_date
  /\ pc \in {"tick_finally", "tick_save", "done"}
  /\ \A i \in 1..Len(Batches) : Batches[i].outcome = "data"
  /\ "np.concatenate" \notin raisedAt

\* the all_ticks array ([] while it is None)
AllTicks == IF all_ticks.isNone THEN <<>> ELSE all_ticks.v

\* C10 (as claimed; the code does not satisfy it): after the fallback to
\* one-day batches, a tick the source holds at a boundary shared by two
\* consecutive batches is neither dropped nor counted twice in all_ticks,
\* whether the source's ranges are closed or half-open.
C10_BoundaryTickExactlyOnce ==
  BatchesAnswered =>
    \A i \in 1..(Len(Batches) - 1) :
      Batches[i].from \in store => Count(Batches[i].from, AllTicks) = 1

\* C10, first half (as claimed; it fails as well): every tick the source holds
\* in [start_date, end_date] occurs exactly once in all_ticks.
C10_EveryHeldTickOnce ==
  BatchesAnswered =>
    \A t \in store : start_date <= t /\ t <= end_date => Count(t, AllTicks) = 1

\* the full-range attempt of the tick pipeline returned a non-empty result
FullSucceeded ==
  /\ pipeline = "tick"
  /\ requests # <<>>
  /\ requests[1].outcome = "data"
  /\ requests[1].data # <<>>

\* the state part of C11
FullRangeFirst ==
  pipeline = "tick" =>
    /\ pc \in {"start", "select", "full"} => requests = <<>>
    /\ selected /\ pc # "full" => requests # <<>>
    /\ requests # <<>> => Range(requests[1]) = <<start_date, end_date>>
    /\ FullSucceeded =>
         /\ Len(requests) = 1
         /\ all_ticks = Some(requests[1].data)
         /\ downloaded
         /\ all_data = <<>>
    /\ Len(requests) >= 2 => requests[1].outcome \in {"none", "raise"} \/ requests[1].data = <<>>

\* the step part of C11: download_in_batches is entered only by the step that
\* makes the full-range request, when that request gave nothing, and the
\* full-range request is made only once
FallbackOnlyAfterFull ==
  /\ (pc' = "batch" /\ pc # "batch") =>
       /\ pc = "full"
       /\ requests = <<>>
       /\ Len(requests') = 1
       /\ ~FullSucceeded'
  /\ pc = "full" => pc' # "full"
  /\ pc' = "full" => pc \in {"select", "full"}
  /\ pc' = "select" => pc \in {"start", "select"}

\* C11: download_by_date_range first issues exactly one request for the whole
\* range; if it returns a non-empty result no batch request is issued and the
\* result becomes all_ticks; the one-day batch fallback is entered only when
\* the full-range request returned None, empty or raised, and at most once.
C11_FullRangeFirstThenFallbackOnce ==
  [](FullRangeFirst) /\ [][FallbackOnlyAfterFull]_vars

\* a run that fell back after an empty full-range answer and made two batch requests
C11_Witness ==
  /\ pipeline = "tick"
  /\ pc = "done"
  /\ Len(requests) = 3
  /\ requests[1].outcome = "raise"
  /\ Range(requests[1]) = <<start_date, end_date>>
  /\ Range(requests[2]) # Range(requests[1])

\* C12: for start_date < end_date the batches requested by download_in_batches
\* walk backwards from end_date and tile the range exactly: the first batch
\* ends at end_date, each later batch ends where the previous one started,
\* every batch spans at most one day and has positive length, no batch starts
\* before start_date, and the last batch starts exactly at start_date.
C12_BatchesTileBackwards ==
  pipeline = "tick" /\ start_date < end_date =>
    /\ \A i \in 1..Len(Batches) :
         /\ Batches[i].to = (IF i = 1 THEN end_date ELSE Batches[i - 1].from)
         /\ Batches[i].to - Batches[i].from <= Day
         /\ Batches[i].from < Batches[i].to
         /\ start_date <= Batches[i].from
         /\ i < Len(Batches) => Batches[i].to - Batches[i].from = Day
    /\ pc = "batch" =>
         /\ current_end = (IF Batches = <<>> THEN end_date ELSE Last(Batches).from)
         /\ start_date < current_end
    /\ FellBack /\ LoopOver =>
         /\ Batches # <<>>
         /\ Batches[1].to = end_date
         /\ Last(Batches).from = start_date

\* a range of a day and a half tiled by one whole-day batch and one clipped batch
C12_Witness ==
  /\ pipeline = "tick"
  /\ pc = "combine"
  /\ Len(Batches) = 2
  /\ Batches[1].to = end_date
  /\ Batches[1].to - Batches[1].from = Day
  /\ Batches[2].to = Batches[1].from
  /\ Batches[2].to - Batches[2].from < Day
  /\ Batches[2].from = start_date

(* a run that keeps going: the script is one sequential thread, so whenever a  *)
(* step is possible one is taken (every data-source call returns)              *)
SpecLive == Spec /\ WF_vars(Next)

\* each iteration of the loop of calculate_chunks strictly advances
\* current_start, and each iteration of the loop of download_in_batches
\* strictly decreases current_end, never below start_date
LoopsAdvance ==
  /\ (pc = "calc_loop" /\ chunks' # chunks) =>
       /\ current_start < end_date
       /\ current_start' > current_start
  /\ (pc = "batch" /\ requests' # requests) =>
       /\ current_end > start_date
       /\ current_end' < current_end
       /\ current_end' >= start_date

\* the number of chunks, batches and requests is bounded by the size of the range
RequestsBounded ==
  /\ Len(chunks) <= Max(TotalMinutes(start_date, end_date), 0) + 1
  /\ pipeline = "bar" => Len(requests) <= Len(chunks)
  /\ pipeline = "tick" /\ end_date <= start_date => Batches = <<>>
  /\ pipeline = "tick" /\ start_date < end_date =>
       Len(Batches) * Day < (end_date - start_date) + Day

\* C13: every run issues a bounded number of requests and terminates: the
\* loop of calculate_chunks strictly advances current_start and ends, the loop
\* of download_in_batches strictly decreases current_end and ends (with no
\* iteration when end_date <= start_date).
C13_RunsTerminate ==
  /\ <>(pc = "done")
  /\ [](pc # "crashed" /\ RequestsBounded)
  /\ [][LoopsAdvance]_vars

\* a finished tick run with end_date <= start_date: the fallback made no batch request
C13_Witness ==
  /\ pipeline = "tick"
  /\ pc = "done"
  /\ end_date <= start_date
  /\ selected
  /\ Len(requests) = 1
  /\ Batches = <<>>
  /\ ~downloaded

=============================================================================
